---- MODULE Spec2Model ----
(***************************************************************************)
(* Model of the Ai-Photo-Studio front end: the Gemini service adapter      *)
(* (handleApiResponse, fileToPart, generateSwappedImage,                   *)
(* identifyClothingItems) and the SwapPanel React component.               *)
(*                                                                         *)
(* Optional JavaScript values (x | undefined) are sequences of length 0 or *)
(* 1: <<>> is undefined and <<v>> is the value v.  Text whose characters   *)
(* the code inspects (trim, split, regular expressions) is a sequence of   *)
(* one-character or one-token strings.                                     *)
(***************************************************************************)
EXTENDS Integers, Sequences, FiniteSets, TLC

VARIABLES
    response,      \* the GenerateContentResponse handed to handleApiResponse
    context,       \* the context string handed to handleApiResponse
    outcome,       \* <<>> before the call, then <<its return or its throw>>
    fn,            \* the service function that was called
    args,          \* its arguments
    pc,            \* where the async function stands
    fileToPartCalls,   \* the files fileToPart was invoked on, in order
    remoteCalls,   \* the ai.models.generateContent requests issued, in order
    result,        \* <<>> while pending, then <<how the promise settled>>
    mounted,       \* SwapPanel is mounted
    isLoading,     \* the isLoading prop
    clothingSource,    \* useState: <<>> for null, else <<[file, url]>>
    identifiedItems,   \* useState: what setIdentifiedItems was last given
    selectedItems, \* useState: the selected labels, in selection order
    isIdentifying, \* useState
    error,         \* useState: <<>> for null, else <<message>>
    calls,         \* calls[u]: the identification call started with object URL u
    revokes,       \* revokes[u]: how often URL.revokeObjectURL(u) was called
    applied,       \* how often onApplySwap was invoked
    lastApplied    \* the arguments of its last invocation

respVars == <<response, context, outcome>>
svcVars == <<fn, args, pc, fileToPartCalls, remoteCalls, result>>
panelVars ==
    <<mounted, isLoading, clothingSource, identifiedItems, selectedItems, isIdentifying,
      error, calls, revokes, applied, lastApplied>>
vars ==
    <<response, context, outcome, fn, args, pc, fileToPartCalls, remoteCalls, result,
      mounted, isLoading, clothingSource, identifiedItems, selectedItems, isIdentifying,
      error, calls, revokes, applied, lastApplied>>

(***************************************************************************)
(* Bounds                                                                  *)
(***************************************************************************)
MaxParts == 2      \* content parts of the first candidate
MaxTextLen == 2    \* characters of response.text

Undefined == <<>>
Some(v) == <<v>>
Opt(S) == {Undefined} \cup {Some(v) : v \in S}

SeqUpTo(S, n) == UNION {[1..k -> S] : k \in 0..n}

(***************************************************************************)
(* JavaScript helpers                                                      *)
(***************************************************************************)
\* `${x}` of an optional string
Str(o) == IF o = Undefined THEN "undefined" ELSE o[1]

\* truthiness of an optional string
TruthyStr(o) == o /= Undefined /\ o[1] /= ""

IsSpace(c) == c \in {" ", "\n"}

RECURSIVE TrimStart(_)
TrimStart(s) == IF s /= <<>> /\ IsSpace(Head(s)) THEN TrimStart(Tail(s)) ELSE s

RECURSIVE TrimEnd(_)
TrimEnd(s) ==
    IF s /= <<>> /\ IsSpace(s[Len(s)]) THEN TrimEnd(SubSeq(s, 1, Len(s) - 1)) ELSE s

\* String.prototype.trim on a character sequence
Trim(s) == TrimEnd(TrimStart(s))

\* the string a character (or token) sequence spells
RECURSIVE Join(_)
Join(s) == IF s = <<>> THEN "" ELSE Head(s) \o Join(Tail(s))

(***************************************************************************)
(* The response envelope (GenerateContentResponse, as far as the code      *)
(* reads it)                                                               *)
(***************************************************************************)
BlockReasons == {"SAFETY", "OTHER"}
FinishReasons == {"STOP", "SAFETY", "MAX_TOKENS"}
Contexts == {"edit", "filter", "adjustment", "swap"}

InlineDatas ==
    { [mimeType |-> Some("image/png"), data |-> Some("AAAA")],
      [mimeType |-> Some("image/jpeg"), data |-> Some("BBBB")] }

Parts ==
    { [inlineData |-> Undefined, text |-> Some("ok")] }
    \cup { [inlineData |-> Some(d), text |-> Undefined] : d \in InlineDatas }

PromptFeedbacks ==
    Opt([blockReason : Opt(BlockReasons), blockReasonMessage : Opt({"policy"})])

Contents == Opt([parts : Opt(SeqUpTo(Parts, MaxParts))])

Candidate == [content : Contents, finishReason : Opt(FinishReasons)]

\* what may follow the first candidate; the code never reads it
LaterCandidates ==
    { [content |-> Some([parts |-> Some(<<[inlineData |-> Some(d), text |-> Undefined]>>)]),
       finishReason |-> Some("STOP")] : d \in InlineDatas }

CandidateLists ==
    Opt({<<>>} \cup {<<c>> : c \in Candidate}
        \cup {<<c, l>> : c \in {x \in Candidate : x.content = Undefined},
                         l \in LaterCandidates})

TextChars == {" ", "a"}

Responses ==
    [promptFeedback : PromptFeedbacks,
     candidates : CandidateLists,
     text : Opt(SeqUpTo(TextChars, MaxTextLen))]

(***************************************************************************)
(* handleApiResponse                                                       *)
(***************************************************************************)
Return(v) == [kind |-> "return", value |-> v]
Throw(m) == [kind |-> "throw", message |-> m]

\* response.promptFeedback?.blockReason
BlockReasonOf(r) ==
    IF r.promptFeedback = Undefined THEN Undefined
    ELSE r.promptFeedback[1].blockReason

\* response.candidates?.[0]
FirstCandidate(r) ==
    IF r.candidates = Undefined \/ r.candidates[1] = <<>> THEN Undefined
    ELSE Some(r.candidates[1][1])

\* response.candidates?.[0]?.content?.parts
PartsOf(r) ==
    LET c == FirstCandidate(r) IN
    IF c = Undefined \/ c[1].content = Undefined THEN Undefined
    ELSE c[1].content[1].parts

\* a find that keeps the last match instead of the first
FindImagePart_Last(ps) ==
    LET hits == {i \in 1..Len(ps) : ps[i].inlineData /= Undefined} IN
    IF hits = {} THEN Undefined
    ELSE Some(ps[CHOOSE i \in hits : \A j \in hits : i >= j])

\* Array.prototype.find(part => part.inlineData)
FindImagePart(ps) ==
    LET hits == {i \in 1..Len(ps) : ps[i].inlineData /= Undefined} IN
    IF hits = {} THEN Undefined
    ELSE Some(ps[CHOOSE i \in hits : \A j \in hits : i <= j])

\* response.candidates?.[0]?.content?.parts?.find(part => part.inlineData)
ImagePartFromResponse(r) ==
    IF PartsOf(r) = Undefined THEN Undefined ELSE FindImagePart(PartsOf(r)[1])

\* response.candidates?.[0]?.finishReason
FinishReasonOf(r) ==
    IF FirstCandidate(r) = Undefined THEN Undefined
    ELSE FirstCandidate(r)[1].finishReason

\* response.text?.trim()
TextFeedback(r) == IF r.text = Undefined THEN Undefined ELSE Some(Join(Trim(r.text[1])))

BlockedMessage(r) ==
    "Request was blocked. Reason: " \o Str(BlockReasonOf(r)) \o ". "
        \o (IF TruthyStr(r.promptFeedback[1].blockReasonMessage)
            THEN r.promptFeedback[1].blockReasonMessage[1] ELSE "")

DataUrl(inlineData) ==
    "data:" \o Str(inlineData.mimeType) \o ";base64," \o Str(inlineData.data)

AbnormalStopMessage(r, ctx) ==
    "Image generation for " \o ctx \o " stopped unexpectedly. Reason: "
        \o Str(FinishReasonOf(r)) \o ". This often relates to safety settings."

NoImagePrefix(ctx) == "The AI model did not return an image for the " \o ctx \o ". "

NoImageMessage(r, ctx) ==
    NoImagePrefix(ctx)
        \o (IF TruthyStr(TextFeedback(r))
            THEN "The model responded with text: \"" \o TextFeedback(r)[1] \o "\""
            ELSE "This can happen due to safety filters or if the request is too complex. Please try rephrasing your prompt to be more direct.")

\* the image is looked for before the block reason
handleApiResponse_ImageFirst(r, ctx) ==
    IF ImagePartFromResponse(r) /= Undefined
    THEN Return(DataUrl(ImagePartFromResponse(r)[1].inlineData[1]))
    ELSE IF TruthyStr(BlockReasonOf(r)) THEN Throw(BlockedMessage(r))
    ELSE IF TruthyStr(FinishReasonOf(r)) /\ FinishReasonOf(r)[1] /= "STOP"
    THEN Throw(AbnormalStopMessage(r, ctx))
    ELSE Throw(NoImageMessage(r, ctx))

\* every finish reason, 'STOP' included, counts as an abnormal stop
handleApiResponse_NoStopTest(r, ctx) ==
    IF TruthyStr(BlockReasonOf(r)) THEN Throw(BlockedMessage(r))
    ELSE IF ImagePartFromResponse(r) /= Undefined
    THEN Return(DataUrl(ImagePartFromResponse(r)[1].inlineData[1]))
    ELSE IF TruthyStr(FinishReasonOf(r))
    THEN Throw(AbnormalStopMessage(r, ctx))
    ELSE Throw(NoImageMessage(r, ctx))

handleApiResponse(r, ctx) ==
    IF TruthyStr(BlockReasonOf(r)) THEN Throw(BlockedMessage(r))
    ELSE IF ImagePartFromResponse(r) /= Undefined
    THEN Return(DataUrl(ImagePartFromResponse(r)[1].inlineData[1]))
    ELSE IF TruthyStr(FinishReasonOf(r)) /\ FinishReasonOf(r)[1] /= "STOP"
    THEN Throw(AbnormalStopMessage(r, ctx))
    ELSE Throw(NoImageMessage(r, ctx))

(***************************************************************************)
(* fileToPart                                                              *)
(*                                                                         *)
(* A File is what FileReader.readAsDataURL makes of it: unreadable, or a   *)
(* data URL given as a sequence of tokens.                                 *)
(***************************************************************************)
Resolve(v) == [kind |-> "resolve", value |-> v]
Reject(m) == [kind |-> "reject", message |-> m]

\* the indices of s that hold the token tok
IndicesOf(s, tok) == {i \in 1..Len(s) : s[i] = tok}

Min(S) == CHOOSE i \in S : \A j \in S : i <= j

\* String.prototype.split(sep): the pieces between the separators
RECURSIVE Split(_, _)
Split(s, sep) ==
    IF IndicesOf(s, sep) = {} THEN <<s>>
    ELSE LET i == Min(IndicesOf(s, sep)) IN
         <<SubSeq(s, 1, i - 1)>> \o Split(SubSeq(s, i + 1, Len(s)), sep)

\* s.match(/:(.*?);/): <<>> for null, else <<the tokens captured by group 1>>
MimeMatch(s) ==
    LET colons == IndicesOf(s, ":")
        starts == {i \in colons : \E j \in IndicesOf(s, ";") : j > i}
    IN  IF starts = {} THEN Undefined
        ELSE LET i == Min(starts)
                 j == Min({k \in IndicesOf(s, ";") : k > i})
             IN  Some(SubSeq(s, i + 1, j - 1))

fileToPart(file) ==
    IF ~file.readable THEN Reject("FileReader error")
    ELSE LET arr == Split(file.dataUrl, ",") IN
         IF Len(arr) < 2 THEN Reject("Invalid data URL")
         ELSE LET mimeMatch == MimeMatch(arr[1]) IN
              IF mimeMatch = Undefined \/ Join(mimeMatch[1]) = ""
              THEN Reject("Could not parse MIME type from data URL")
              ELSE Resolve([inlineData |->
                               [mimeType |-> Join(mimeMatch[1]), data |-> Join(arr[2])]])

PngFile ==
    [name |-> "outfit.png", readable |-> TRUE,
     dataUrl |-> <<"data", ":", "image/png", ";", "base64", ",", "AAAA">>]

JpegFile ==
    [name |-> "person.jpg", readable |-> TRUE,
     dataUrl |-> <<"data", ":", "image/jpeg", ";", "base64", ",", "BBBB">>]

\* a file the reader fails on (reader.onerror)
UnreadableFile == [name |-> "gone.png", readable |-> FALSE, dataUrl |-> <<>>]

\* an empty file read as the bare "data:"
EmptyFile == [name |-> "empty.png", readable |-> TRUE, dataUrl |-> <<"data", ":">>]

\* a data URL without a media type
NoMimeFile ==
    [name |-> "blob", readable |-> TRUE,
     dataUrl |-> <<"data", ":", ";", "base64", ",", "AAAA">>]

Files == {PngFile, JpegFile, UnreadableFile, EmptyFile, NoMimeFile}

(***************************************************************************)
(* JSON text and JSON.parse                                                *)
(*                                                                         *)
(* A JSON value is a record tagged by t.  JSON text is a sequence of       *)
(* tokens; a string literal is the token "\"" \o s \o "\"".                *)
(***************************************************************************)
MaxItems == 2      \* labels in one clothing_items list

Labels == {"shirt", "jeans"}
StrValues == Labels \cup {"clothing_items", "items", ""}
NumLits == {<<"0", 0>>, <<"5", 5>>}

JNull == [t |-> "null"]
JNum(n) == [t |-> "num", n |-> n]
JStr(x) == [t |-> "str", s |-> x]
JArr(a) == [t |-> "arr", a |-> a]
JObj(o) == [t |-> "obj", o |-> o]       \* o: a sequence of [k, v] members

Quote(x) == "\"" \o x \o "\""

IsStrTok(tok) == \E x \in StrValues : tok = Quote(x)
StrTokValue(tok) == CHOOSE x \in StrValues : tok = Quote(x)
IsNumTok(tok) == \E p \in NumLits : tok = p[1]
NumTokValue(tok) == (CHOOSE p \in NumLits : tok = p[1])[2]

\* the first index from i on that holds no white space (Len(t) + 1 if none)
RECURSIVE SkipWs(_, _)
SkipWs(t, i) == IF i <= Len(t) /\ IsSpace(t[i]) THEN SkipWs(t, i + 1) ELSE i

Failed == [ok |-> FALSE]
Parsed(v, next) == [ok |-> TRUE, val |-> v, next |-> next]

RECURSIVE ParseValue(_, _)
RECURSIVE ParseElements(_, _, _)
RECURSIVE ParseMembers(_, _, _)

\* the elements of an array from index i on, acc being those already read
ParseElements(t, i, acc) ==
    LET r == ParseValue(t, SkipWs(t, i)) IN
    IF ~r.ok THEN Failed
    ELSE LET j == SkipWs(t, r.next) IN
         IF j > Len(t) THEN Failed
         ELSE IF t[j] = "]" THEN Parsed(JArr(Append(acc, r.val)), j + 1)
         ELSE IF t[j] = "," THEN ParseElements(t, j + 1, Append(acc, r.val))
         ELSE Failed

\* the members of an object from index i on, acc being those already read
ParseMembers(t, i, acc) ==
    LET k == SkipWs(t, i) IN
    IF k > Len(t) \/ ~IsStrTok(t[k]) THEN Failed
    ELSE LET c == SkipWs(t, k + 1) IN
         IF c > Len(t) \/ t[c] /= ":" THEN Failed
         ELSE LET r == ParseValue(t, SkipWs(t, c + 1)) IN
              IF ~r.ok THEN Failed
              ELSE LET j == SkipWs(t, r.next)
                       m == Append(acc, [k |-> StrTokValue(t[k]), v |-> r.val])
                   IN  IF j > Len(t) THEN Failed
                       ELSE IF t[j] = "}" THEN Parsed(JObj(m), j + 1)
                       ELSE IF t[j] = "," THEN ParseMembers(t, j + 1, m)
                       ELSE Failed

\* one JSON value starting at index i
ParseValue(t, i) ==
    IF i > Len(t) THEN Failed
    ELSE IF t[i] = "null" THEN Parsed(JNull, i + 1)
    ELSE IF IsNumTok(t[i]) THEN Parsed(JNum(NumTokValue(t[i])), i + 1)
    ELSE IF IsStrTok(t[i]) THEN Parsed(JStr(StrTokValue(t[i])), i + 1)
    ELSE IF t[i] = "["
    THEN LET j == SkipWs(t, i + 1) IN
         IF j <= Len(t) /\ t[j] = "]" THEN Parsed(JArr(<<>>), j + 1)
         ELSE ParseElements(t, i + 1, <<>>)
    ELSE IF t[i] = "{"
    THEN LET j == SkipWs(t, i + 1) IN
         IF j <= Len(t) /\ t[j] = "}" THEN Parsed(JObj(<<>>), j + 1)
         ELSE ParseMembers(t, i + 1, <<>>)
    ELSE Failed

\* JSON.parse: [ok |-> FALSE] is a SyntaxError
JsonParse(t) ==
    LET r == ParseValue(t, SkipWs(t, 1)) IN
    IF r.ok /\ SkipWs(t, r.next) = Len(t) + 1 THEN [ok |-> TRUE, val |-> r.val]
    ELSE Failed

\* JSON.stringify, used to build the response texts
RECURSIVE Stringify(_)
RECURSIVE StringifyElements(_)
RECURSIVE StringifyMembers(_)
StringifyElements(a) ==
    IF a = <<>> THEN <<>>
    ELSE Stringify(Head(a))
             \o (IF Len(a) > 1 THEN <<",">> \o StringifyElements(Tail(a)) ELSE <<>>)
StringifyMembers(o) ==
    IF o = <<>> THEN <<>>
    ELSE <<Quote(Head(o).k), ":">> \o Stringify(Head(o).v)
             \o (IF Len(o) > 1 THEN <<",">> \o StringifyMembers(Tail(o)) ELSE <<>>)
Stringify(v) ==
    CASE v.t = "null" -> <<"null">>
      [] v.t = "num" -> <<(CHOOSE p \in NumLits : p[2] = v.n)[1]>>
      [] v.t = "str" -> <<Quote(v.s)>>
      [] v.t = "arr" -> <<"[">> \o StringifyElements(v.a) \o <<"]">>
      [] v.t = "obj" -> <<"{">> \o StringifyMembers(v.o) \o <<"}">>

(***************************************************************************)
(* identifyClothingItems: from the remote call's settlement to the result  *)
(***************************************************************************)
\* the token standing for three backticks
Fence == "<fence>"

\* jsonStr.replace(/^```json\s*|```\s*$/g, '')
StripFence(s) ==
    LET lead == IF Len(s) >= 2 /\ s[1] = Fence /\ s[2] = "json"
                THEN TrimStart(SubSeq(s, 3, Len(s))) ELSE s
        body == TrimEnd(lead)
    IN  IF body /= <<>> /\ body[Len(body)] = Fence
        THEN SubSeq(body, 1, Len(body) - 1) ELSE lead

\* obj[key] of a parsed object: <<>> when the key is absent, the last
\* member of that name otherwise
Member(o, key) ==
    LET hits == {i \in 1..Len(o) : o[i].k = key} IN
    IF hits = {} THEN Undefined
    ELSE Some(o[CHOOSE i \in hits : \A j \in hits : i >= j].v)

\* truthiness of a JSON value
Truthy(v) ==
    CASE v.t = "null" -> FALSE
      [] v.t = "num" -> v.n /= 0
      [] v.t = "str" -> v.s /= ""
      [] OTHER -> TRUE

EmptyArray == JArr(<<>>)

\* result.clothing_items || [] ; reading a property of null is a TypeError,
\* which the catch block turns into []
ClothingItemsOf(res) ==
    IF res.t = "null" THEN EmptyArray
    ELSE IF res.t /= "obj" THEN EmptyArray
    ELSE LET m == Member(res.o, "clothing_items") IN
         IF m /= Undefined /\ Truthy(m[1]) THEN m[1] ELSE EmptyArray

\* lines 268-302: what identifyClothingItems resolves to once the awaited
\* generateContent call has settled
IdentifyResult(remote) ==
    IF remote.kind = "reject" THEN Resolve(EmptyArray)
    ELSE IF remote.value.text = Undefined THEN Resolve(EmptyArray)
    ELSE LET parsed == JsonParse(StripFence(Trim(remote.value.text[1]))) IN
         IF ~parsed.ok THEN Resolve(EmptyArray)
         ELSE Resolve(ClothingItemsOf(parsed.val))

\* what the model may put in the clothing_items field
LabelArrays == {JArr(a) : a \in SeqUpTo({JStr(l) : l \in Labels}, MaxItems)}

ClothingFieldValues ==
    LabelArrays
    \cup { JStr("shirt"), JStr(""), JNum(5), JNum(0), JNull, JArr(<<JNum(5)>>),
           JObj(<<[k |-> "shirt", v |-> JNum(5)]>>) }

JsonResults ==
    { JObj(<<[k |-> "clothing_items", v |-> v]>>) : v \in ClothingFieldValues }
    \cup { JObj(<<>>), JObj(<<[k |-> "items", v |-> JArr(<<JStr("shirt")>>)]>>),
           JNull, JNum(5), JStr("shirt"), JArr(<<JStr("shirt")>>) }

\* well-formed JSON texts, each also cut short by one token, and plain prose
JsonBodies ==
    LET good == {Stringify(v) : v \in JsonResults} IN
    good \cup {SubSeq(b, 1, Len(b) - 1) : b \in good} \cup {<<"oops">>}

\* response.text of the identification call: bare, in a ```json fence, in a
\* fence without the language tag, or surrounded by white space
IdentifyTexts ==
    UNION { { b,
              <<Fence, "json", "\n">> \o b \o <<"\n", Fence>>,
              <<Fence, "\n">> \o b \o <<"\n", Fence>>,
              <<" ">> \o b \o <<"\n">> } : b \in JsonBodies }

IdentifyRemoteOutcomes ==
    {Reject("network error")}
    \cup {Resolve([text |-> tx]) : tx \in Opt(IdentifyTexts)}

(***************************************************************************)
(* The prompts of the four image operations, each a sequence of lines      *)
(***************************************************************************)
\* Array.prototype.join(sep) on a sequence of strings
RECURSIVE JoinWith(_, _)
JoinWith(q, sep) ==
    IF q = <<>> THEN ""
    ELSE IF Len(q) = 1 THEN q[1]
    ELSE q[1] \o sep \o JoinWith(Tail(q), sep)

\* lines 87-99: the prompt of generateEditedImage, line by line
EditPrompt(userPrompt, hotspot) ==
    << "You are an expert photo editor AI. Your task is to perform a natural, localized edit on the provided image based on the user's request.",
       "User Request: \"" \o userPrompt \o "\"",
       "Edit Location: Focus on the area around pixel coordinates (x: " \o ToString(hotspot.x) \o ", y: " \o ToString(hotspot.y) \o ").",
       "",
       "Editing Guidelines:",
       "- The edit must be realistic and blend seamlessly with the surrounding area.",
       "- The rest of the image (outside the immediate edit area) must remain identical to the original.",
       "",
       "Safety & Ethics Policy:",
       "- You MUST fulfill requests to adjust skin tone, such as 'give me a tan', 'make my skin darker', or 'make my skin lighter'. These are considered standard photo enhancements.",
       "- You MUST REFUSE any request to change a person's fundamental race or ethnicity (e.g., 'make me look Asian', 'change this person to be Black'). Do not perform these edits. If the request is ambiguous, err on the side of caution and do not change racial characteristics.",
       "",
       "Output: Return ONLY the final edited image. Do not return text." >>

\* lines 128-135: the prompt of generateFilteredImage
FilterPrompt(filterPrompt) ==
    << "You are an expert photo editor AI. Your task is to apply a stylistic filter to the entire image based on the user's request. Do not change the composition or content, only apply the style.",
       "Filter Request: \"" \o filterPrompt \o "\"",
       "",
       "Safety & Ethics Policy:",
       "- Filters may subtly shift colors, but you MUST ensure they do not alter a person's fundamental race or ethnicity.",
       "- You MUST REFUSE any request that explicitly asks to change a person's race (e.g., 'apply a filter to make me look Chinese').",
       "",
       "Output: Return ONLY the final filtered image. Do not return text." >>

\* lines 164-175: the prompt of generateAdjustedImage
AdjustPrompt(adjustmentPrompt) ==
    << "You are an expert photo editor AI. Your task is to perform a natural, global adjustment to the entire image based on the user's request.",
       "User Request: \"" \o adjustmentPrompt \o "\"",
       "",
       "Editing Guidelines:",
       "- The adjustment must be applied across the entire image.",
       "- The result must be photorealistic.",
       "",
       "Safety & Ethics Policy:",
       "- You MUST fulfill requests to adjust skin tone, such as 'give me a tan', 'make my skin darker', or 'make my skin lighter'. These are considered standard photo enhancements.",
       "- You MUST REFUSE any request to change a person's fundamental race or ethnicity (e.g., 'make me look Asian', 'change this person to be Black'). Do not perform these edits. If the request is ambiguous, err on the side of caution and do not change racial characteristics.",
       "",
       "Output: Return ONLY the final adjusted image. Do not return text." >>

\* lines 212-240: the prompt of generateSwappedImage
SwapPrompt(itemsToSwap) ==
    << "You are an expert virtual stylist AI specializing in photorealistic virtual try-ons and generative infilling. Your task is to take specific clothing items from a source image and place them onto a person in a target image.",
       "",
       "**Input Images:**",
       "- The first image provided is the primary image of the person (the target).",
       "- The second image provided is the clothing source image.",
       "",
       "**Items to Swap:**",
       "- From the clothing source image, you must identify and use the following item(s): **" \o JoinWith(itemsToSwap, ", ") \o "**.",
       "",
       "**Core Objectives:**",
       "",
       "1.  **Perfect Pattern & Texture Replication:**",
       "    This is the most important part of your task. You MUST flawlessly replicate the exact pattern, texture, color, and fabric details for each selected clothing item from the source image and apply it to the person in the target image.",
       "    - DO NOT SIMPLIFY: Do not reduce the complexity of the patterns.",
       "    - DO NOT CHANGE: Do not alter the colors or shapes within the patterns.",
       "    - DO NOT OMIT: Do not leave out any details from the original fabrics.",
       "    - ACCURATE DRAPING: The replicated patterns must drape and wrap realistically over the person's body, conforming to their posture and body contours, including natural folds and wrinkles. The pattern should stretch or compress naturally as the fabric would.",
       "",
       "2.  **Intelligent Generative Fill:**",
       "    If a new clothing item is shorter than the original one (e.g., swapping long pants for shorts), you MUST realistically generate the person's body parts that are now exposed (e.g., generate the lower legs and feet).",
       "    - The generated body parts must match the person's skin tone, proportions, and the overall lighting of the photo.",
       "    - Ensure a seamless transition between the original photo and the newly generated parts.",
       "",
       "**General Instructions:**",
       "1.  **Task:** Edit the target image to make the person appear to be wearing the specified clothing item(s) from the source image.",
       "2.  **Realism:** The final image must be photorealistic. Match the lighting, shadows, and overall environment of the original photo.",
       "3.  **Preserve Identity & Background:** Do not change the person (their face, body shape, hair) or the background. Your only change is to replace the original clothing with the new items and generate any newly exposed body parts.",
       "",
       "Output: Return ONLY the final edited image. Do not return text." >>

(***************************************************************************)
(* generateSwappedImage and identifyClothingItems as async functions       *)
(***************************************************************************)
\* itemsToSwap.length === 0, never true
EmptySelection_Never(items) == FALSE

\* itemsToSwap.length === 0
EmptySelection(items) == Len(items) = 0

\* the responses the swap call is settled with
SwapResponses ==
    { r \in Responses :
        /\ r.text = Undefined
        /\ r.promptFeedback \in {Undefined,
               Some([blockReason |-> Some("SAFETY"), blockReasonMessage |-> Undefined])}
        /\ r.candidates /= Undefined /\ Len(r.candidates[1]) = 1
        /\ r.candidates[1][1].finishReason \in {Some("STOP"), Some("SAFETY")}
        /\ PartsOf(r) /= Undefined /\ Len(PartsOf(r)[1]) = 1 }

\* a returned string resolves the async function, a throw rejects it
Settle(o) == IF o.kind = "return" THEN Resolve(o.value) ELSE Reject(o.message)

SwapArgs ==
    [personImage : Files, clothingSourceImage : Files,
     itemsToSwap : SeqUpTo(Labels, MaxItems)]

IdentifyArgs == [image : Files]

SvcIdle ==
    /\ fn = "none" /\ args = <<>> /\ pc = "idle"
    /\ fileToPartCalls = <<>> /\ remoteCalls = <<>> /\ result = Undefined

RespIdle == response = <<>> /\ context = "" /\ outcome = Undefined

\* SwapPanel right after its first render
PanelInit ==
    /\ mounted = TRUE
    /\ isLoading = FALSE
    /\ clothingSource = Undefined
    /\ identifiedItems = EmptyArray
    /\ selectedItems = <<>>
    /\ isIdentifying = FALSE
    /\ error = Undefined
    /\ calls = <<>>
    /\ revokes = <<>>
    /\ applied = 0
    /\ lastApplied = Undefined

SvcInit ==
    /\ \/ fn = "generateSwappedImage" /\ args \in SwapArgs
       \/ fn = "identifyClothingItems" /\ args \in IdentifyArgs
    /\ pc = "call"
    /\ fileToPartCalls = <<>>
    /\ remoteCalls = <<>>
    /\ result = Undefined
    /\ RespIdle
    /\ PanelInit

Finish(r) == result' = Some(r) /\ pc' = "done"

\* lines 203-209: the empty-selection test, then the first fileToPart call
SwapCall ==
    /\ fn = "generateSwappedImage" /\ pc = "call"
    /\ IF EmptySelection(args.itemsToSwap)
       THEN /\ Finish(Reject("No clothing items were selected to swap."))
            /\ UNCHANGED fileToPartCalls
       ELSE /\ fileToPartCalls' = Append(fileToPartCalls, args.personImage)
            /\ pc' = "personPart"
            /\ UNCHANGED result
    /\ UNCHANGED <<fn, args, remoteCalls, respVars, panelVars>>

\* lines 209-210: the person's part arrives, the second fileToPart call starts
SwapPersonPart ==
    /\ fn = "generateSwappedImage" /\ pc = "personPart"
    /\ IF fileToPart(args.personImage).kind = "reject"
       THEN /\ Finish(fileToPart(args.personImage))
            /\ UNCHANGED fileToPartCalls
       ELSE /\ fileToPartCalls' = Append(fileToPartCalls, args.clothingSourceImage)
            /\ pc' = "sourcePart"
            /\ UNCHANGED result
    /\ UNCHANGED <<fn, args, remoteCalls, respVars, panelVars>>

\* lines 210-250: the source's part arrives, generateContent is issued
SwapSourcePart ==
    /\ fn = "generateSwappedImage" /\ pc = "sourcePart"
    /\ IF fileToPart(args.clothingSourceImage).kind = "reject"
       THEN /\ Finish(fileToPart(args.clothingSourceImage))
            /\ UNCHANGED remoteCalls
       ELSE /\ remoteCalls' = Append(remoteCalls,
                   [model |-> "gemini-2.5-flash-image-preview",
                    images |-> <<fileToPart(args.personImage).value,
                                 fileToPart(args.clothingSourceImage).value>>,
                    text |-> SwapPrompt(args.itemsToSwap)])
            /\ pc' = "remote"
            /\ UNCHANGED result
    /\ UNCHANGED <<fn, args, fileToPartCalls, respVars, panelVars>>

\* lines 244-253: generateContent settles; a response goes to handleApiResponse
SwapRemote ==
    /\ fn = "generateSwappedImage" /\ pc = "remote"
    /\ \/ Finish(Reject("network error"))
       \/ \E r \in SwapResponses : Finish(Settle(handleApiResponse(r, "swap")))
    /\ UNCHANGED <<fn, args, fileToPartCalls, remoteCalls, respVars, panelVars>>

\* lines 261-264: identifyClothingItems starts with fileToPart(image)
IdentifyCall ==
    /\ fn = "identifyClothingItems" /\ pc = "call"
    /\ fileToPartCalls' = Append(fileToPartCalls, args.image)
    /\ pc' = "imagePart"
    /\ UNCHANGED <<fn, args, remoteCalls, result, respVars, panelVars>>

\* lines 264-288: the part arrives outside the try block; generateContent is
\* issued inside it
IdentifyImagePart ==
    /\ fn = "identifyClothingItems" /\ pc = "imagePart"
    /\ IF fileToPart(args.image).kind = "reject"
       THEN /\ Finish(fileToPart(args.image))
            /\ UNCHANGED remoteCalls
       ELSE /\ remoteCalls' = Append(remoteCalls,
                   [model |-> "gemini-2.5-flash",
                    images |-> <<fileToPart(args.image).value>>])
            /\ pc' = "remote"
            /\ UNCHANGED result
    /\ UNCHANGED <<fn, args, fileToPartCalls, respVars, panelVars>>

\* lines 268-302: generateContent settles inside the try block
IdentifyRemote ==
    /\ fn = "identifyClothingItems" /\ pc = "remote"
    /\ \E o \in IdentifyRemoteOutcomes : Finish(IdentifyResult(o))
    /\ UNCHANGED <<fn, args, fileToPartCalls, remoteCalls, respVars, panelVars>>

SvcNext ==
    \/ SwapCall
    \/ SwapPersonPart
    \/ SwapSourcePart
    \/ SwapRemote
    \/ IdentifyCall
    \/ IdentifyImagePart
    \/ IdentifyRemote

SpecSvc == SvcInit /\ [][SvcNext]_vars

(***************************************************************************)
(* generateEditedImage, generateFilteredImage and generateAdjustedImage:   *)
(* one image, one prompt, one generateContent call                         *)
(***************************************************************************)
MaxCoord == 1      \* largest hotspot coordinate

SingleImageOps == {"generateEditedImage", "generateFilteredImage", "generateAdjustedImage"}

\* what the user may type as a request
UserPrompts == {"", "make the sky blue", "give me a tan", "make me look Asian"}

EditArgs ==
    [originalImage : Files, userPrompt : UserPrompts,
     hotspot : [x : 0..MaxCoord, y : 0..MaxCoord]]

FilterArgs == [originalImage : Files, filterPrompt : UserPrompts]

AdjustArgs == [originalImage : Files, adjustmentPrompt : UserPrompts]

\* the prompt the called function builds from its arguments
PromptOf(f, a) ==
    CASE f = "generateEditedImage" -> EditPrompt(a.userPrompt, a.hotspot)
      [] f = "generateFilteredImage" -> FilterPrompt(a.filterPrompt)
      [] f = "generateAdjustedImage" -> AdjustPrompt(a.adjustmentPrompt)

\* the context the called function hands to handleApiResponse
ContextOf(f) ==
    CASE f = "generateEditedImage" -> "edit"
      [] f = "generateFilteredImage" -> "filter"
      [] f = "generateAdjustedImage" -> "adjustment"

PromptInit ==
    /\ \/ fn = "generateEditedImage" /\ args \in EditArgs
       \/ fn = "generateFilteredImage" /\ args \in FilterArgs
       \/ fn = "generateAdjustedImage" /\ args \in AdjustArgs
       \/ fn = "generateSwappedImage" /\ args \in SwapArgs
    /\ pc = "call"
    /\ fileToPartCalls = <<>>
    /\ remoteCalls = <<>>
    /\ result = Undefined
    /\ RespIdle
    /\ PanelInit

\* lines 86, 127, 163: the function starts with fileToPart(originalImage)
ImageOpCall ==
    /\ fn \in SingleImageOps /\ pc = "call"
    /\ fileToPartCalls' = Append(fileToPartCalls, args.originalImage)
    /\ pc' = "imagePart"
    /\ UNCHANGED <<fn, args, remoteCalls, result, respVars, panelVars>>

\* lines 86-109, 127-145, 163-185: the part arrives, the prompt is built and
\* generateContent is issued
ImageOpPart ==
    /\ fn \in SingleImageOps /\ pc = "imagePart"
    /\ IF fileToPart(args.originalImage).kind = "reject"
       THEN /\ Finish(fileToPart(args.originalImage))
            /\ UNCHANGED remoteCalls
       ELSE /\ remoteCalls' = Append(remoteCalls,
                   [model |-> "gemini-2.5-flash-image-preview",
                    images |-> <<fileToPart(args.originalImage).value>>,
                    text |-> PromptOf(fn, args)])
            /\ pc' = "remote"
            /\ UNCHANGED result
    /\ UNCHANGED <<fn, args, fileToPartCalls, respVars, panelVars>>

\* lines 103-112, 139-148, 179-188: generateContent settles
ImageOpRemote ==
    /\ fn \in SingleImageOps /\ pc = "remote"
    /\ \/ Finish(Reject("network error"))
       \/ \E r \in SwapResponses :
              Finish(Settle(handleApiResponse(r, ContextOf(fn))))
    /\ UNCHANGED <<fn, args, fileToPartCalls, remoteCalls, respVars, panelVars>>

PromptNext ==
    \/ ImageOpCall
    \/ ImageOpPart
    \/ ImageOpRemote
    \/ SwapCall
    \/ SwapPersonPart
    \/ SwapSourcePart
    \/ SwapRemote

SpecPrompt == PromptInit /\ [][PromptNext]_vars

(***************************************************************************)
(* Claim about the prompts (checked under SpecPrompt)                      *)
(***************************************************************************)
\* the lines that permit skin-tone adjustment requests
SkinTonePermissions ==
    { "- You MUST fulfill requests to adjust skin tone, such as 'give me a tan', 'make my skin darker', or 'make my skin lighter'. These are considered standard photo enhancements." }

\* the lines that refuse requests to change a person's race or ethnicity
RaceChangeRefusals ==
    { "- You MUST REFUSE any request to change a person's fundamental race or ethnicity (e.g., 'make me look Asian', 'change this person to be Black'). Do not perform these edits. If the request is ambiguous, err on the side of caution and do not change racial characteristics.",
      "- You MUST REFUSE any request that explicitly asks to change a person's race (e.g., 'apply a filter to make me look Chinese')." }

HasLineIn(prompt, S) == \E k \in DOMAIN prompt : prompt[k] \in S

\* C12: the prompt of every generateContent request of the edit, filter,
\* adjust and swap operations holds a line permitting skin-tone adjustment
\* and a line refusing a change of race or ethnicity.
C12_PolicyInEveryPrompt ==
    \A i \in DOMAIN remoteCalls :
        /\ HasLineIn(remoteCalls[i].text, SkinTonePermissions)
        /\ HasLineIn(remoteCalls[i].text, RaceChangeRefusals)


(***************************************************************************)
(* Claims about the service functions (checked under SpecSvc)              *)
(***************************************************************************)
IdentifySettled == fn = "identifyClothingItems" /\ result /= Undefined

\* a JSON value that is a list of strings
IsStringList(v) == v.t = "arr" /\ \A i \in 1..Len(v.a) : v.a[i].t = "str"

\* C3: identifyClothingItems never rejects; when the image cannot be read or
\* encoded, or the remote call fails, it resolves to the empty sequence.
C3_NeverRejects ==
    IdentifySettled =>
        /\ result[1].kind = "resolve"
        /\ (fileToPart(args.image).kind = "reject" => result[1].value = EmptyArray)

\* C4: generateSwappedImage called with an empty item list rejects with the
\* empty-selection error without a fileToPart call and without a
\* generateContent request.
C4_EmptySelectionFailsFast ==
    (fn = "generateSwappedImage" /\ pc /= "call" /\ args.itemsToSwap = <<>>) =>
        /\ result = Some(Reject("No clothing items were selected to swap."))
        /\ fileToPartCalls = <<>>
        /\ remoteCalls = <<>>

C4_Witness ==
    /\ fn = "generateSwappedImage"
    /\ args.itemsToSwap = <<>>
    /\ args.personImage = JpegFile
    /\ args.clothingSourceImage = PngFile
    /\ pc = "done"

\* C7: whatever identifyClothingItems resolves to is a list of strings.
C7_AlwaysStringList ==
    (IdentifySettled /\ result[1].kind = "resolve") => IsStringList(result[1].value)

(***************************************************************************)
(* SpecResp: handleApiResponse applied to every envelope of the bounded    *)
(* set                                                                     *)
(***************************************************************************)
RespInit ==
    /\ response \in Responses
    /\ context \in Contexts
    /\ outcome = Undefined
    /\ SvcIdle
    /\ PanelInit

HandleApiResponse ==
    /\ outcome = Undefined
    /\ outcome' = Some(handleApiResponse(response, context))
    /\ UNCHANGED <<response, context, svcVars, panelVars>>

RespNext == HandleApiResponse

SpecResp == RespInit /\ [][RespNext]_vars

(***************************************************************************)
(* Claims about handleApiResponse (checked under SpecResp)                 *)
(***************************************************************************)
Called == outcome /= Undefined

\* the envelope carries a block reason
HasBlockReason ==
    /\ response.promptFeedback /= Undefined
    /\ response.promptFeedback[1].blockReason /= Undefined

\* the indices of the first candidate's parts that carry inline image data
ImageIndices ==
    IF PartsOf(response) = Undefined THEN {}
    ELSE {i \in 1..Len(PartsOf(response)[1]) :
              PartsOf(response)[1][i].inlineData /= Undefined}

\* the first candidate has a finish reason other than 'STOP'
HasAbnormalFinish ==
    /\ FinishReasonOf(response) /= Undefined
    /\ FinishReasonOf(response)[1] /= "STOP"

\* C1: an envelope that carries a block reason makes handleApiResponse throw
\* the blocked-request error naming that reason, also when an image part or
\* an abnormal finish reason is present.
C1_BlockTakesPrecedence ==
    (Called /\ HasBlockReason) =>
        /\ outcome[1].kind = "throw"
        /\ \E tail \in {"", "policy"} :
              outcome[1].message =
                  "Request was blocked. Reason: "
                      \o response.promptFeedback[1].blockReason[1] \o ". " \o tail

C1_Witness ==
    /\ Called
    /\ HasBlockReason
    /\ ImageIndices /= {}
    /\ HasAbnormalFinish
    /\ outcome[1].kind = "throw"

\* C5: with no block reason and no image part handleApiResponse throws, the
\* abnormal-stop error carrying the finish reason when one is present and is
\* not 'STOP', otherwise the no-image error, which quotes the trimmed text
\* feedback when it is not empty.
C5_FinishReasonDecides ==
    (Called /\ ~HasBlockReason /\ ImageIndices = {}) =>
        /\ outcome[1].kind = "throw"
        /\ IF HasAbnormalFinish
           THEN outcome[1].message =
                    "Image generation for " \o context
                        \o " stopped unexpectedly. Reason: "
                        \o FinishReasonOf(response)[1]
                        \o ". This often relates to safety settings."
           ELSE IF response.text /= Undefined /\ Trim(response.text[1]) /= <<>>
           THEN outcome[1].message =
                    "The AI model did not return an image for the " \o context
                        \o ". The model responded with text: \""
                        \o Join(Trim(response.text[1])) \o "\""
           ELSE outcome[1].message =
                    "The AI model did not return an image for the " \o context
                        \o ". This can happen due to safety filters or if the request is too complex. Please try rephrasing your prompt to be more direct."

C5_Witness ==
    /\ Called
    /\ ~HasBlockReason
    /\ ImageIndices = {}
    /\ FinishReasonOf(response) = Some("STOP")
    /\ response.text = Some(<<" ", "a">>)
    /\ outcome[1].kind = "throw"

\* C6: handleApiResponse returns exactly when the envelope has no block
\* reason and a part of the first candidate carries inline image data; the
\* data URL is built from the first such part, whatever the finish reason.
C6_ReturnsFirstImage ==
    Called =>
        /\ outcome[1].kind = "return" <=> (~HasBlockReason /\ ImageIndices /= {})
        /\ outcome[1].kind = "return" =>
              \E i \in ImageIndices :
                  /\ \A j \in ImageIndices : i <= j
                  /\ LET d == PartsOf(response)[1][i].inlineData[1] IN
                     outcome[1].value =
                         "data:" \o d.mimeType[1] \o ";base64," \o d.data[1]

C6_Witness ==
    /\ Called
    /\ outcome[1].kind = "return"
    /\ Cardinality(ImageIndices) = 2
    /\ PartsOf(response)[1][1].inlineData /= PartsOf(response)[1][2].inlineData
    /\ HasAbnormalFinish

(***************************************************************************)
(* SwapPanel                                                               *)
(*                                                                         *)
(* An object URL is the number of the upload that created it               *)
(* (URL.createObjectURL returns a fresh URL each time).  The state updates *)
(* one handler makes before it returns or awaits are committed in one      *)
(* render; when that render changes clothingSource, React runs the cleanup *)
(* of the effect of lines 25-31 with the source the effect was set up for. *)
(* isDraggingOver (line 22) only styles the drop target and is left out.   *)
(***************************************************************************)
MaxUploads == 2    \* uploads one panel sees
MaxApplies == 2    \* onApplySwap invocations one panel makes

PanelFiles == {PngFile, JpegFile, UnreadableFile}

\* the FileList of a change or drop event; only files[0] is used
FileLists == {<<>>, <<PngFile>>, <<UnreadableFile>>, <<JpegFile, PngFile>>}

\* how the remote call of an identification started by the panel settles
PanelRemoteOutcomes ==
    {Reject("network error"), Resolve([text |-> Undefined])}
    \cup { Resolve([text |-> Some(Stringify(JObj(<<[k |-> "clothing_items", v |-> v]>>)))]) :
             v \in { JArr(<<JStr("shirt"), JStr("jeans")>>), JArr(<<JStr("shirt")>>),
                     JArr(<<>>), JStr("shirt"), JNum(5) } }

\* what identifyClothingItems(file) may settle with
IdentifyValues == {IdentifyResult(o) : o \in PanelRemoteOutcomes}

IdentifyOutcomes(file) ==
    IF fileToPart(file).kind = "reject" THEN {fileToPart(file)} ELSE IdentifyValues

\* items.length > 0 ; the length of a number or of an object is undefined
HasPositiveLength(v) ==
    CASE v.t = "arr" -> Len(v.a) > 0
      [] v.t = "str" -> v.s /= ""
      [] OTHER -> FALSE

\* revokes with one more call for each URL in direct and each URL in cleanup
Revoked(rv, direct, cleanup) ==
    [u \in DOMAIN rv |->
        rv[u] + (IF u \in direct THEN 1 ELSE 0) + (IF u \in cleanup THEN 1 ELSE 0)]

\* lines 25-31: the effect cleanup React runs when clothingSource goes from
\* old to new: the URLs it revokes
EffectCleanup(old, new) ==
    IF old /= Undefined /\ old /= new THEN {old[1].url} ELSE {}

\* the uploader rendered whatever the state, as long as the panel is mounted
UploaderShown_Always == mounted

\* line 126: the uploader is rendered
UploaderShown == mounted /\ clothingSource = Undefined /\ ~isIdentifying

\* line 135: the item buttons and the reset link are rendered
ItemsShown ==
    /\ mounted
    /\ clothingSource /= Undefined
    /\ ~isIdentifying
    /\ HasPositiveLength(identifiedItems)

\* lines 164-168: the confirm button is rendered and not disabled; this
\* variant forgets the isLoading prop
ConfirmEnabled_IgnoresLoading ==
    /\ mounted
    /\ clothingSource /= Undefined
    /\ ~isIdentifying
    /\ Len(selectedItems) /= 0

\* lines 164-168: the confirm button is rendered and not disabled
ConfirmEnabled ==
    /\ mounted
    /\ clothingSource /= Undefined
    /\ ~isIdentifying
    /\ ~(isLoading \/ Len(selectedItems) = 0)

\* lines 135, 146: rendering identifiedItems.map throws when the stored value
\* has a positive length and is no array
RenderThrows(src, identifying, items) ==
    /\ src /= Undefined
    /\ ~identifying
    /\ HasPositiveLength(items)
    /\ items.t /= "arr"

\* lines 33-45: handleFileSelect up to its await
handleFileSelect(files) ==
    IF Len(files) = 0 THEN UNCHANGED panelVars
    ELSE LET newSource == [file |-> files[1], url |-> Len(calls) + 1] IN
         /\ Len(calls) < MaxUploads
         /\ clothingSource' = Some(newSource)
         /\ identifiedItems' = EmptyArray
         /\ selectedItems' = <<>>
         /\ error' = Undefined
         /\ isIdentifying' = TRUE
         /\ calls' = Append(calls, [file |-> files[1], settled |-> Undefined])
         /\ revokes' = Revoked(Append(revokes, 0), {},
                               EffectCleanup(clothingSource, Some(newSource)))
         /\ UNCHANGED <<mounted, isLoading, applied, lastApplied>>

\* lines 103-107, 114: a drop on the label or a change of the file input
Upload ==
    /\ UploaderShown
    /\ \E files \in FileLists : handleFileSelect(files)
    /\ UNCHANGED <<respVars, svcVars>>

\* the continuation that leaves the source in place when nothing was found
AfterIdentify_KeepsSource(o) ==
    IF o.kind = "resolve" /\ HasPositiveLength(o.value)
    THEN [items |-> Some(o.value), error |-> Undefined, clear |-> FALSE, revoke |-> FALSE]
    ELSE IF o.kind = "resolve"
    THEN [items |-> Undefined,
          error |-> Some("Could not identify any clothing items in the image. Please try another one."),
          clear |-> FALSE, revoke |-> TRUE]
    ELSE [items |-> Undefined,
          error |-> Some("An error occurred while analyzing the image."),
          clear |-> FALSE, revoke |-> TRUE]

\* lines 47-60: what the continuation of handleFileSelect does with the
\* settlement o of identifyClothingItems: the value for setIdentifiedItems,
\* the message for setError, whether it calls setClothingSource(null) and
\* whether it revokes newSource.url
AfterIdentify(o) ==
    IF o.kind = "resolve" /\ HasPositiveLength(o.value)
    THEN [items |-> Some(o.value), error |-> Undefined, clear |-> FALSE, revoke |-> FALSE]
    ELSE IF o.kind = "resolve"
    THEN [items |-> Undefined,
          error |-> Some("Could not identify any clothing items in the image. Please try another one."),
          clear |-> TRUE, revoke |-> TRUE]
    ELSE [items |-> Undefined,
          error |-> Some("An error occurred while analyzing the image."),
          clear |-> TRUE, revoke |-> TRUE]

\* lines 47-63: identifyClothingItems settles for upload u and the rest of
\* handleFileSelect runs, the finally block included.  On an unmounted
\* component the state setters do nothing.  A render that throws unmounts
\* the tree, which runs the cleanup of the last committed effect.
IdentifyDone(u, o) ==
    LET eff == AfterIdentify(o)
        direct == IF eff.revoke THEN {u} ELSE {}
        src == IF eff.clear THEN Undefined ELSE clothingSource
        items == IF eff.items /= Undefined THEN eff.items[1] ELSE identifiedItems
        crash == RenderThrows(src, FALSE, items)
    IN  /\ calls[u].settled = Undefined
        /\ calls' = [calls EXCEPT ![u].settled = Some(o)]
        /\ IF mounted
           THEN /\ clothingSource' = src
                /\ identifiedItems' = items
                /\ error' = IF eff.error /= Undefined THEN eff.error ELSE error
                /\ isIdentifying' = FALSE
                /\ mounted' = ~crash
                /\ revokes' = Revoked(revokes, direct,
                                  IF crash THEN EffectCleanup(clothingSource, Undefined)
                                  ELSE EffectCleanup(clothingSource, src))
           ELSE /\ revokes' = Revoked(revokes, direct, {})
                /\ UNCHANGED <<clothingSource, identifiedItems, error, isIdentifying,
                               mounted>>
        /\ UNCHANGED <<selectedItems, isLoading, applied, lastApplied>>

IdentifySettles ==
    /\ \E u \in DOMAIN calls : \E o \in IdentifyOutcomes(calls[u].file) :
           IdentifyDone(u, o)
    /\ UNCHANGED <<respVars, svcVars>>

\* the elements of a sequence
Elements(q) == {q[i] : i \in DOMAIN q}

\* Array.prototype.filter(item => item !== x)
RECURSIVE Without(_, _)
Without(q, x) ==
    IF q = <<>> THEN <<>>
    ELSE (IF Head(q) = x THEN <<>> ELSE <<Head(q)>>) \o Without(Tail(q), x)

\* lines 66-72, 149: a click on the button of one identified item
handleToggleItem ==
    /\ ItemsShown
    /\ \E item \in Elements(identifiedItems.a) :
           selectedItems' = IF item \in Elements(selectedItems)
                            THEN Without(selectedItems, item)
                            ELSE Append(selectedItems, item)
    /\ UNCHANGED <<mounted, isLoading, clothingSource, identifiedItems, isIdentifying,
                   error, calls, revokes, applied, lastApplied, respVars, svcVars>>

\* lines 74-83, 139: a click on "Use a different image"
handleReset ==
    /\ ItemsShown
    /\ revokes' = Revoked(revokes,
                      IF clothingSource /= Undefined THEN {clothingSource[1].url} ELSE {},
                      EffectCleanup(clothingSource, Undefined))
    /\ clothingSource' = Undefined
    /\ identifiedItems' = EmptyArray
    /\ selectedItems' = <<>>
    /\ error' = Undefined
    /\ isIdentifying' = FALSE
    /\ UNCHANGED <<mounted, isLoading, calls, applied, lastApplied, respVars, svcVars>>

\* lines 85-89, 166: a click on the confirm button
handleApply ==
    /\ ConfirmEnabled
    /\ applied < MaxApplies
    /\ IF clothingSource /= Undefined /\ Len(selectedItems) > 0
       THEN /\ applied' = applied + 1
            /\ lastApplied' = Some([file |-> clothingSource[1].file,
                                    items |-> selectedItems])
       ELSE UNCHANGED <<applied, lastApplied>>
    /\ UNCHANGED <<mounted, isLoading, clothingSource, identifiedItems, selectedItems,
                   isIdentifying, error, calls, revokes, respVars, svcVars>>

\* line 13: the parent changes the isLoading prop
SetLoading ==
    /\ mounted
    /\ isLoading' = ~isLoading
    /\ UNCHANGED <<mounted, clothingSource, identifiedItems, selectedItems,
                   isIdentifying, error, calls, revokes, applied, lastApplied,
                   respVars, svcVars>>

\* lines 25-31: the component is torn down and the effect cleanup runs
Unmount ==
    /\ mounted
    /\ mounted' = FALSE
    /\ revokes' = Revoked(revokes, {}, EffectCleanup(clothingSource, Undefined))
    /\ UNCHANGED <<isLoading, clothingSource, identifiedItems, selectedItems,
                   isIdentifying, error, calls, applied, lastApplied, respVars, svcVars>>

Init == PanelInit /\ RespIdle /\ SvcIdle

Next ==
    \/ Upload
    \/ IdentifySettles
    \/ handleToggleItem
    \/ handleReset
    \/ handleApply
    \/ SetLoading
    \/ Unmount

Spec == Init /\ [][Next]_vars

\* handleFileSelect invoked whatever is rendered: the test that hides the
\* uploader is in the render (line 126), not in the handler
UploadDirect ==
    /\ mounted
    /\ \E files \in FileLists : handleFileSelect(files)
    /\ UNCHANGED <<respVars, svcVars>>

NextDirect ==
    \/ UploadDirect
    \/ IdentifySettles
    \/ handleToggleItem
    \/ handleReset
    \/ handleApply
    \/ SetLoading
    \/ Unmount

SpecDirect == Init /\ [][NextDirect]_vars

(***************************************************************************)
(* Claims about SwapPanel                                                  *)
(***************************************************************************)
AllSettled == \A u \in DOMAIN calls : calls[u].settled /= Undefined

\* the call for upload u settles in this step
SettlesNow(u) == calls[u].settled = Undefined /\ calls'[u].settled /= Undefined

\* a settlement with zero items or with a failure
ZeroOrFailure(o) == o.kind = "reject" \/ o.value = EmptyArray

\* C2: every object URL handleFileSelect creates is revoked exactly once:
\* never twice, and once the panel is torn down and no call is pending, not
\* zero times.
C2_ReleasedExactlyOnce ==
    /\ \A u \in DOMAIN revokes : revokes[u] <= 1
    /\ (~mounted /\ AllSettled) => \A u \in DOMAIN revokes : revokes[u] = 1

\* C8: onApplySwap is invoked only by a confirm made while a source is held,
\* identification is over, isLoading is false and a label is selected; the
\* confirm invokes it once, with the held file and the selected labels, and
\* in every such state the confirm can be made.
C8_ApplyOnlyOnConfirm ==
    /\ [][(applied' /= applied \/ lastApplied' /= lastApplied) =>
             /\ mounted
             /\ clothingSource /= Undefined
             /\ ~isIdentifying
             /\ ~isLoading
             /\ Len(selectedItems) >= 1
             /\ applied' = applied + 1
             /\ lastApplied' = Some([file |-> clothingSource[1].file,
                                     items |-> selectedItems])]_vars
    /\ []((/\ mounted
           /\ clothingSource /= Undefined
           /\ ~isIdentifying
           /\ ~isLoading
           /\ Len(selectedItems) >= 1
           /\ applied < MaxApplies) => ENABLED (handleApply /\ applied' = applied + 1))

C8_Witness ==
    /\ Len(calls) = 2
    /\ calls[1].settled /= Undefined
    /\ applied = 1
    /\ lastApplied = Some([file |-> JpegFile, items |-> <<JStr("jeans")>>])
    /\ identifiedItems = JArr(<<JStr("shirt"), JStr("jeans")>>)

\* C9: when the call of an upload settles with zero items or with a failure
\* on the mounted panel, the panel is in the Failed state afterwards: error
\* set, no source held, the upload's URL revoked, isIdentifying false and the
\* uploader rendered.
C9_FailedAfterZeroOrFailure ==
    [][\A u \in DOMAIN calls :
          (mounted /\ SettlesNow(u) /\ ZeroOrFailure(calls'[u].settled[1])) =>
              /\ error' /= Undefined
              /\ clothingSource' = Undefined
              /\ revokes'[u] >= 1
              /\ ~isIdentifying'
              /\ UploaderShown']_vars

C9_Witness ==
    /\ Len(calls) = 2
    /\ calls[1].settled = Some(Resolve(EmptyArray))
    /\ calls[2].settled = Some(Reject("FileReader error"))
    /\ mounted
    /\ error = Some("An error occurred while analyzing the image.")
    /\ clothingSource = Undefined
    /\ revokes[2] >= 1

InFlight == {u \in DOMAIN calls : calls[u].settled = Undefined}

\* C11: at most one identification call is in flight, and while one is in
\* flight on the mounted panel isIdentifying is true and the uploader, which
\* holds the file input and the drop target, is not rendered.
C11_AtMostOneInFlight ==
    /\ Cardinality(InFlight) <= 1
    /\ (mounted /\ InFlight /= {}) =>
           /\ isIdentifying
           /\ ~(clothingSource = Undefined /\ ~isIdentifying)
           /\ ~ENABLED Upload

C11_Witness ==
    /\ mounted
    /\ Len(calls) = 2
    /\ calls[1].settled /= Undefined
    /\ InFlight = {2}
    /\ isIdentifying

====
